---- MODULE Spec2Model ----
(***************************************************************************)
(* Preview generation engine of src/plex/generator.py: the per-item job    *)
(* (process_item), the frame extractor (generate_images), the artifact     *)
(* encoder (generate_bif) and the library orchestrator (run).              *)
(*                                                                         *)
(* File names are sequences of character codes and file contents are       *)
(* sequences of bytes, so that renaming, sorting and the binary layout are *)
(* computed the way the code computes them.                                *)
(***************************************************************************)
EXTENDS Integers, Sequences, FiniteSets, TLC

(* ------------------------------------------------------------------ *)
(* Bounds of the model                                                 *)
(* ------------------------------------------------------------------ *)
\* most frames the transcoder extracts from one media file
MaxFrames == 3
\* most bytes in one extracted frame file
MaxSize == 2
\* most transcoder processes of other programs on the accelerator
MaxExternal == 1
\* how often the program is started (run() once per start)
MaxRuns == 2

(* ------------------------------------------------------------------ *)
(* Strings (sequences of character codes) and Python's str operations  *)
(* ------------------------------------------------------------------ *)
\* "img-"
ImgPrefix == <<105, 109, 103, 45>>
\* ".jpg"
JpgSuffix == <<46, 106, 112, 103>>
\* "img"
GlobPrefix == <<105, 109, 103>>

Digit(d) == 48 + d
IsDigit(c) == c >= 48 /\ c <= 57

RECURSIVE Dec(_)
\* str(n) for n >= 0: the decimal digits, most significant first
Dec(n) == IF n < 10 THEN <<Digit(n)>> ELSE Dec(n \div 10) \o <<Digit(n % 10)>>

RECURSIVE Zeros(_)
Zeros(k) == IF k <= 0 THEN <<>> ELSE <<Digit(0)>> \o Zeros(k - 1)

\* Python/C "%0<w>d" for n >= 0: zero-padded to AT LEAST w characters
ZeroPad(n, w) == Zeros(w - Len(Dec(n))) \o Dec(n)

StartsWith(s, p) == Len(s) >= Len(p) /\ SubSeq(s, 1, Len(p)) = p
EndsWith(s, p) == Len(s) >= Len(p) /\ SubSeq(s, Len(s) - Len(p) + 1, Len(s)) = p

Chars(s) == {s[i] : i \in 1..Len(s)}

RECURSIVE LStrip(_, _)
LStrip(s, cs) == IF s # <<>> /\ s[1] \in cs THEN LStrip(Tail(s), cs) ELSE s

RECURSIVE RStrip(_, _)
RStrip(s, cs) ==
    IF s # <<>> /\ s[Len(s)] \in cs THEN RStrip(SubSeq(s, 1, Len(s) - 1), cs) ELSE s

\* str.strip(chars): drops leading and trailing characters that are in chars
Strip(s, chars) == RStrip(LStrip(s, Chars(chars)), Chars(chars))

\* int(s) succeeds on a non-empty string of digits (no sign or blank occurs here)
IsInt(s) == s # <<>> /\ \A i \in 1..Len(s) : IsDigit(s[i])

RECURSIVE ParseInt(_)
ParseInt(s) ==
    IF s = <<>> THEN 0 ELSE 10 * ParseInt(SubSeq(s, 1, Len(s) - 1)) + (s[Len(s)] - 48)

RECURSIVE LexLess(_, _)
\* Python's str <: lexicographic by character code, a proper prefix is smaller
LexLess(a, b) ==
    IF a = <<>> THEN b # <<>>
    ELSE IF b = <<>> THEN FALSE
    ELSE IF a[1] # b[1] THEN a[1] < b[1]
    ELSE LexLess(Tail(a), Tail(b))

LexMin(S) == CHOOSE a \in S : \A b \in S \ {a} : LexLess(a, b)

RECURSIVE Sorted(_)
\* sorted(S) of a set of distinct strings
Sorted(S) == IF S = {} THEN <<>> ELSE <<LexMin(S)>> \o Sorted(S \ {LexMin(S)})

RECURSIVE Concat(_)
Concat(ss) == IF ss = <<>> THEN <<>> ELSE Head(ss) \o Concat(Tail(ss))

(* ------------------------------------------------------------------ *)
(* Directories: functions from file name to file content               *)
(* ------------------------------------------------------------------ *)
EmptyDir == [n \in {} |-> <<>>]

\* the frame file the transcoder writes for ordinal k: '{output_folder}/img-%06d.jpg'
FfmpegName(k) == ImgPrefix \o ZeroPad(k, 6) \o JpgSuffix

\* content of frame k of a video whose k-th frame has size sz: bytes that differ
\* from frame to frame and from position to position
FrameBytes(k, sz) == [j \in 1..sz |-> 16 * k + j]

\* the directory after the transcoder wrote the frames of sizes sizes[1..n]
FfmpegOutput(sizes) ==
    [n \in {FfmpegName(k) : k \in 1..Len(sizes)} |->
        LET k == CHOOSE k \in 1..Len(sizes) : FfmpegName(k) = n
        IN  FrameBytes(k, sizes[k])]

\* glob.glob(f'{output_folder}/img*.jpg')
GlobImages(dir) == {n \in DOMAIN dir : StartsWith(n, GlobPrefix) /\ EndsWith(n, JpgSuffix)}

\* os.path.basename(image).strip('img-').strip('.jpg')
OrdinalText(name) == Strip(Strip(name, ImgPrefix), JpgSuffix)

\* frame_no = int(...) - 1
frame_no(name) == ParseInt(OrdinalText(name)) - 1

\* frame_second = frame_no * settings.PLEX_BIF_FRAME_INTERVAL
frame_second(name, interval) == frame_no(name) * interval

\* the name without zero padding: f'{frame_second}.jpg'
TimestampNameUnpadded(second) == Dec(second) \o JpgSuffix

\* f'{frame_second:010d}.jpg'
TimestampName(second) == ZeroPad(second, 10) \o JpgSuffix

\* os.rename(old, new): the entry moves, an existing target is replaced
Rename(dir, old, new) ==
    [n \in (DOMAIN dir \ {old}) \cup {new} |-> IF n = new THEN dir[old] ELSE dir[n]]

RECURSIVE RenameLoop(_, _, _)
\* the rename loop over the globbed names, one os.rename per name
RenameLoop(dir, names, interval) ==
    IF names = <<>> THEN dir
    ELSE RenameLoop(Rename(dir, Head(names),
                           TimestampName(frame_second(Head(names), interval))),
                    Tail(names), interval)

\* int() raises ValueError on a name whose ordinal text is not a number
RenameRaises(dir) == \E n \in GlobImages(dir) : ~IsInt(OrdinalText(n))

RenameImages(dir, interval) == RenameLoop(dir, Sorted(GlobImages(dir)), interval)

(* ------------------------------------------------------------------ *)
(* generate_bif: the artifact's bytes, one chunk per f.write call      *)
(* ------------------------------------------------------------------ *)
magic == <<137, 66, 73, 70, 13, 10, 26, 10>>
version == 0

\* struct.pack("<I", x): four bytes, least significant first
Pack32(x) == <<x % 256, (x \div 256) % 256, (x \div 65536) % 256, (x \div 16777216) % 256>>

\* struct.pack("<I", 0xffffffff)
SentinelTimestamp == <<255, 255, 255, 255>>

\* bytes([0x00] * 56)
Padding == [j \in 1..56 |-> 0]

\* sorted([img for img in os.listdir(images_path) if img.endswith('.jpg')])
ListImages(dir) == Sorted({n \in DOMAIN dir : EndsWith(n, JpgSuffix)})

bif_table_size(n) == 8 + (8 * n)

RECURSIVE SizeSum(_, _, _)
\* st_size of images[1..k] added up
SizeSum(dir, images, k) ==
    IF k = 0 THEN 0 ELSE SizeSum(dir, images, k - 1) + Len(dir[images[k]])

\* image_index when the i-th index entry is written (i = Len(images)+1: the sentinel)
image_index(dir, images, i) == 64 + bif_table_size(Len(images)) + SizeSum(dir, images, i - 1)

HeaderWrites(n, interval) ==
    <<magic, Pack32(version), Pack32(n), Pack32(1000 * interval), Padding>>

TableWrites(dir, images) ==
    LET entry(i) == <<Pack32(i - 1), Pack32(image_index(dir, images, i))>>
        RECURSIVE upto(_)
        upto(i) == IF i = 0 THEN <<>> ELSE upto(i - 1) \o entry(i)
    IN  upto(Len(images))
        \o <<SentinelTimestamp, Pack32(image_index(dir, images, Len(images) + 1))>>

PayloadWrites(dir, images) == [i \in 1..Len(images) |-> dir[images[i]]]

\* every f.write of generate_bif, in order
BifWrites(dir, interval) ==
    LET images == ListImages(dir)
    IN  HeaderWrites(Len(images), interval) \o TableWrites(dir, images)
        \o PayloadWrites(dir, images)

\* the file after the first k writes
BifPrefix(dir, interval, k) == Concat(SubSeq(BifWrites(dir, interval), 1, k))

\* the complete artifact
BifBytes(dir, interval) == Concat(BifWrites(dir, interval))

(* ------------------------------------------------------------------ *)
(* The library served by the Plex collaborator (read-only input)       *)
(* ------------------------------------------------------------------ *)
\* self.plex.library.sections(): type and the item keys section.search() returns
Sections ==
    << [type |-> "movie",   media |-> <<1, 2>>],
       [type |-> "artist",  media |-> <<3>>],
       [type |-> "episode", media |-> <<4>>] >>

Items == {1, 2, 3, 4}

\* data.findall('.//MediaPart') of item k: hash = 0 stands for a MediaPart
\* without a 'hash' attribute; file is the mapped media_file
Tree(k) ==
    CASE k = 1 -> << [hash |-> 1, file |-> 1] >>
      [] k = 2 -> << [hash |-> 0, file |-> 6], [hash |-> 2, file |-> 2] >>
      [] k = 3 -> << [hash |-> 3, file |-> 3] >>
      [] k = 4 -> << [hash |-> 4, file |-> 4], [hash |-> 5, file |-> 5] >>

Hashes == {1, 2, 3, 4, 5}
Files == {1, 2, 3, 4, 5, 6}

\* the media files for which os.path.isfile(media_file) holds
MediaFiles == {1, 2, 3, 5, 6}

\* a path that holds no file, and a file with its bytes
NoFile == [exists |-> FALSE, bytes |-> <<>>]
File(b) == [exists |-> TRUE, bytes |-> b]

\* a path that holds no directory, and a directory with its entries
NoDir == [exists |-> FALSE, files |-> EmptyDir]
Dir(d) == [exists |-> TRUE, files |-> d]

\* the accelerator states detect_gpu returns
AcceleratorStates == {"None", "NVIDIA", "/dev/dri/renderD128"}

\* all frame-size sequences of at most MaxFrames frames of 1..MaxSize bytes
Videos == UNION {[1..n -> 1..MaxSize] : n \in 0..MaxFrames}

\* what a transcoder that exits non-zero leaves behind of a video: some of its
\* first frames, the last of them possibly cut short (down to an empty file)
Leftovers(v) ==
    {<<>>} \cup
    UNION {{[k \in 1..m |-> IF k = m THEN t ELSE v[k]] : t \in 0..v[m]} : m \in 1..Len(v)}

VARIABLES
    settings,       \* PLEX_BIF_FRAME_INTERVAL, GPU_THREADS, CPU_THREADS
    gpu,            \* the accelerator state passed to run()
    video,          \* per media file: the sizes of the frames the transcoder extracts
    indexes,        \* hashes whose .../Contents/Indexes directory exists
    tmp,            \* per hash: the directory TMP_FOLDER/<hash>: Dir(entries) or NoDir
    bif,            \* per hash: the file index-sd.bif: File(bytes) or NoFile
    metrics,        \* per media file: the hw_accel column of the rows insert_metric added
    runPc, sec, nfut, runs,         \* run(): position, section, future awaited, starts
    future,         \* per item: state of the future run() holds for it
    pc, part,       \* per item: position inside process_item, MediaPart index
    hw_accel_used,  \* per item: the local of generate_images (FALSE outside it)
    ffmpeg_count,   \* per item: the local of generate_images (-1: not computed)
    returncode,     \* per hash: proc.returncode of this run's transcoder (-1: none)
    outcome,        \* per hash: the branch of process_item the part took in this run
    extractions,    \* per hash: how often the transcoder was started
    encodings       \* per hash: how often generate_bif was called

vars == <<settings, gpu, video, indexes, tmp, bif, metrics, runPc, sec, nfut, runs,
          future, pc, part, hw_accel_used, ffmpeg_count, returncode, outcome,
          extractions, encodings>>

fsVars == <<indexes, tmp, bif, metrics>>
runVars == <<runPc, sec, nfut, runs>>
histVars == <<returncode, outcome, extractions, encodings>>
inputVars == <<settings, gpu, video>>
localVars == <<hw_accel_used, ffmpeg_count>>

(* ------------------------------------------------------------------ *)
(* process_item: one Item Job, MediaPart by MediaPart                  *)
(* ------------------------------------------------------------------ *)
MediaPart(i) == Tree(i)[part[i]]

\* the existence test dropped: every part is generated anew
isfile_index_bif_never(h) == FALSE

\* os.path.isfile(index_bif)
isfile_index_bif(h) == bif[h].exists

\* the source file test dropped: every referenced file is taken to exist
isfile_media_file_always(f) == TRUE

\* os.path.isfile(media_file)
isfile_media_file(f) == f \in MediaFiles

\* one directory for all jobs: TMP_FOLDER itself
tmp_path_shared(h) == 1

\* tmp_path = os.path.join(settings.TMP_FOLDER, bundle_hash): the directories
\* under TMP_FOLDER are told apart by the hash in their name
tmp_path(h) == h

\* shutil.rmtree(tmp_path, ignore_errors=True)
rmtree(h) == [tmp EXCEPT ![tmp_path(h)] = NoDir]

\* os.makedirs(tmp_path, exist_ok=True): an existing directory keeps its entries
makedirs_tmp(h) ==
    [tmp EXCEPT ![tmp_path(h)] = IF tmp[tmp_path(h)].exists THEN @ ELSE Dir(EmptyDir)]

\* `continue`: on to the next MediaPart of the item
Continue(i) == /\ part' = [part EXCEPT ![i] = part[i] + 1]
               /\ pc' = [pc EXCEPT ![i] = "MediaPart"]

\* an exception leaves process_item: the future holds it
Raise(i) == /\ future' = [future EXCEPT ![i] = "raised"]
            /\ pc' = [pc EXCEPT ![i] = "done"]

\* data = self.plex.query(f'{item_key}/tree')
query(i) ==
    /\ future[i] = "running" /\ pc[i] = "query"
    /\ \/ /\ pc' = [pc EXCEPT ![i] = "MediaPart"]
          /\ part' = [part EXCEPT ![i] = 1]
          /\ UNCHANGED future
       \/ Raise(i) /\ UNCHANGED part
    /\ UNCHANGED <<fsVars, runVars, histVars, inputVars, localVars>>

\* the for loop is exhausted: process_item returns
process_item_return(i) ==
    /\ future[i] = "running" /\ pc[i] = "MediaPart" /\ part[i] > Len(Tree(i))
    /\ future' = [future EXCEPT ![i] = "returned"]
    /\ pc' = [pc EXCEPT ![i] = "done"]
    /\ UNCHANGED <<part, fsVars, runVars, histVars, inputVars, localVars>>

\* lines 225-256: the checks on one MediaPart, up to the two os.makedirs
locate_target(i) ==
    /\ future[i] = "running" /\ pc[i] = "MediaPart" /\ part[i] <= Len(Tree(i))
    /\ LET h == MediaPart(i).hash
           f == MediaPart(i).file
       IN  IF h = 0
           THEN Continue(i) /\ UNCHANGED <<future, fsVars, histVars>>
           ELSE IF ~isfile_media_file(f)
           THEN /\ Continue(i)
                /\ outcome' = [outcome EXCEPT ![h] = "not_found"]
                /\ UNCHANGED <<future, fsVars, returncode, extractions, encodings>>
           ELSE IF isfile_index_bif(h)
           THEN /\ Continue(i)
                /\ outcome' = [outcome EXCEPT ![h] = "exists"]
                /\ UNCHANGED <<future, fsVars, returncode, extractions, encodings>>
           ELSE \/ /\ indexes' = indexes \cup {h}
                   /\ tmp' = makedirs_tmp(h)
                   /\ pc' = [pc EXCEPT ![i] = "generate_images"]
                   /\ outcome' = [outcome EXCEPT ![h] = "generating"]
                   /\ UNCHANGED <<future, part, bif, metrics, returncode,
                                  extractions, encodings>>
                \* os.makedirs(indexes_path) raises
                \/ /\ Raise(i)
                   /\ outcome' = [outcome EXCEPT ![h] = "raised"]
                   /\ UNCHANGED <<part, fsVars, returncode, extractions, encodings>>
                \* os.makedirs(tmp_path) raises
                \/ /\ Raise(i)
                   /\ indexes' = indexes \cup {h}
                   /\ outcome' = [outcome EXCEPT ![h] = "raised"]
                   /\ UNCHANGED <<part, tmp, bif, metrics, returncode,
                                  extractions, encodings>>
    /\ UNCHANGED <<runVars, inputVars, localVars>>

\* the handler without its shutil.rmtree
except_generate_images_no_rmtree(i, h, why) ==
    /\ UNCHANGED tmp
    /\ hw_accel_used' = [hw_accel_used EXCEPT ![i] = FALSE]
    /\ ffmpeg_count' = [ffmpeg_count EXCEPT ![i] = -1]
    /\ outcome' = [outcome EXCEPT ![h] = why]
    /\ Continue(i)

\* lines 260-263: generate_images raised
except_generate_images(i, h, why) ==
    /\ tmp' = rmtree(h)
    /\ hw_accel_used' = [hw_accel_used EXCEPT ![i] = FALSE]
    /\ ffmpeg_count' = [ffmpeg_count EXCEPT ![i] = -1]
    /\ outcome' = [outcome EXCEPT ![h] = why]
    /\ Continue(i)

\* a count that includes the workers that chose the accelerator and have not
\* started their transcoder yet
OwnGpuProcessesAndChosen ==
    Cardinality({j \in Items : pc[j] \in {"Popen", "communicate"} /\ hw_accel_used[j]})

\* number of this program's transcoders that run on the accelerator
OwnGpuProcesses == Cardinality({j \in Items : pc[j] = "communicate" /\ hw_accel_used[j]})

\* the admission test without the CPU_THREADS == 0 override
admit_by_count_only(count) == count < settings.GPU_THREADS

\* lines 136 and 143: the admission test on the counted transcoder processes
admit(count) == count < settings.GPU_THREADS \/ settings.CPU_THREADS = 0

\* lines 130-151: hw_accel_used for accelerator state g
select_hw_accel(g, count) ==
    IF g = "NVIDIA" THEN admit(count)
    ELSE IF g # "None" THEN admit(count)
    ELSE FALSE

\* lines 132-142: the transcoder processes the accelerator lists: this program's
\* own and ext of other programs; without accelerator nothing is counted
count_ffmpeg(g, ext) == IF g = "None" THEN -1 ELSE OwnGpuProcesses + ext

\* lines 107-151: probe the media, count the transcoders, choose the decode path
generate_images_args(i) ==
    /\ future[i] = "running" /\ pc[i] = "generate_images"
    /\ LET h == MediaPart(i).hash
       IN  \/ \E ext \in 0..MaxExternal :
                /\ ffmpeg_count' = [ffmpeg_count EXCEPT ![i] = count_ffmpeg(gpu, ext)]
                /\ hw_accel_used' = [hw_accel_used EXCEPT ![i] =
                                        select_hw_accel(gpu, count_ffmpeg(gpu, ext))]
                /\ pc' = [pc EXCEPT ![i] = "Popen"]
                /\ UNCHANGED <<part, fsVars, histVars>>
           \* MediaInfo.parse or the accelerator's process listing raises
           \/ /\ except_generate_images(i, h, "probe_raised")
              /\ UNCHANGED <<indexes, bif, metrics, returncode, extractions, encodings>>
    /\ UNCHANGED <<future, runVars, inputVars>>

\* line 154: subprocess.Popen(args)
Popen(i) ==
    /\ future[i] = "running" /\ pc[i] = "Popen"
    /\ LET h == MediaPart(i).hash
       IN  extractions' = [extractions EXCEPT ![h] = @ + 1]
    /\ pc' = [pc EXCEPT ![i] = "communicate"]
    /\ UNCHANGED <<future, part, fsVars, runVars, inputVars, localVars,
                   returncode, outcome, encodings>>

\* the frame files add to what the directory holds
WriteFrames(dir, sizes) ==
    LET out == FfmpegOutput(sizes)
    IN  [n \in DOMAIN dir \cup DOMAIN out |-> IF n \in DOMAIN out THEN out[n] ELSE dir[n]]

\* lines 159-163: the transcoder exits; on a non-zero code generate_images logs
\* the error and returns
communicate(i) ==
    /\ future[i] = "running" /\ pc[i] = "communicate"
    /\ LET h == MediaPart(i).hash
           f == MediaPart(i).file
       IN  \/ /\ returncode' = [returncode EXCEPT ![h] = 0]
              /\ tmp' = [tmp EXCEPT ![tmp_path(h)] = Dir(WriteFrames(@.files, video[f]))]
              /\ pc' = [pc EXCEPT ![i] = "rename"]
              /\ UNCHANGED localVars
           \/ \E left \in Leftovers(video[f]) :
                /\ returncode' = [returncode EXCEPT ![h] = 1]
                /\ tmp' = [tmp EXCEPT ![tmp_path(h)] = Dir(WriteFrames(@.files, left))]
                /\ pc' = [pc EXCEPT ![i] = "generate_bif"]
                /\ hw_accel_used' = [hw_accel_used EXCEPT ![i] = FALSE]
                /\ ffmpeg_count' = [ffmpeg_count EXCEPT ![i] = -1]
    /\ UNCHANGED <<future, part, indexes, bif, metrics, runVars, inputVars,
                   outcome, extractions, encodings>>

\* line 180 and db.py lines 27-36: one more row for the video file
insert_metric(f, hw_accel) == [metrics EXCEPT ![f] = Append(@, hw_accel)]

\* lines 165-180: rename the frames to their timestamps, then insert_metric
rename_and_insert_metric(i) ==
    /\ future[i] = "running" /\ pc[i] = "rename"
    /\ LET h == MediaPart(i).hash
           f == MediaPart(i).file
       IN  \* int() or os.rename raises before any metric is written
           \/ /\ except_generate_images(i, h, "rename_raised")
              /\ UNCHANGED metrics
           \/ /\ ~RenameRaises(tmp[tmp_path(h)].files)
              /\ tmp' = [tmp EXCEPT ![tmp_path(h)] =
                    Dir(RenameImages(@.files, settings.PLEX_BIF_FRAME_INTERVAL))]
              /\ metrics' = insert_metric(f, hw_accel_used[i])
              /\ pc' = [pc EXCEPT ![i] = "generate_bif"]
              /\ hw_accel_used' = [hw_accel_used EXCEPT ![i] = FALSE]
              /\ ffmpeg_count' = [ffmpeg_count EXCEPT ![i] = -1]
              /\ UNCHANGED <<part, outcome>>
           \* insert_metric raises (no table, locked or unwritable database)
           \/ /\ ~RenameRaises(tmp[tmp_path(h)].files)
              /\ except_generate_images(i, h, "insert_metric_raised")
              /\ UNCHANGED metrics
    /\ UNCHANGED <<future, indexes, bif, runVars, inputVars,
                   returncode, extractions, encodings>>

\* number of f.write calls generate_bif makes for the directory
NWrites(dir) == Len(BifWrites(dir, settings.PLEX_BIF_FRAME_INTERVAL))

\* line 266 and lines 182-214: generate_bif runs to its end or raises on the way;
\* after a normal return the finally clause removes the temporary directory
generate_bif(i) ==
    /\ future[i] = "running" /\ pc[i] = "generate_bif"
    /\ LET h == MediaPart(i).hash
           dir == tmp[tmp_path(h)].files
           interval == settings.PLEX_BIF_FRAME_INTERVAL
       IN  /\ encodings' = [encodings EXCEPT ![h] = @ + 1]
           /\ \* os.listdir or open(bif_filename, "wb") raises: no file is created
              \/ /\ pc' = [pc EXCEPT ![i] = "except"]
                 /\ UNCHANGED <<bif, tmp, outcome, part>>
              \/ /\ bif' = [bif EXCEPT ![h] = File(BifBytes(dir, interval))]
                 /\ tmp' = rmtree(h)
                 /\ outcome' = [outcome EXCEPT ![h] = "written"]
                 /\ Continue(i)
              \* os.stat, open, read or f.write raises after k writes went through
              \/ \E k \in 0..(NWrites(dir) - 1) :
                    /\ bif' = [bif EXCEPT ![h] = File(BifPrefix(dir, interval, k))]
                    /\ pc' = [pc EXCEPT ![i] = "except"]
                    /\ UNCHANGED <<tmp, outcome, part>>
    /\ UNCHANGED <<future, indexes, metrics, runVars, inputVars, localVars,
                   returncode, extractions>>

\* the handler without its os.remove
remove_partial_skipped(h) == bif

\* lines 268-269: if os.path.exists(index_bif): os.remove(index_bif)
remove_partial(h) == [bif EXCEPT ![h] = NoFile]

\* lines 267-273: generate_bif raised; remove the file if it exists, then finally
except_generate_bif(i) ==
    /\ future[i] = "running" /\ pc[i] = "except"
    /\ LET h == MediaPart(i).hash
       IN  /\ IF bif[h].exists
              THEN /\ bif' = remove_partial(h)
                   /\ outcome' = [outcome EXCEPT ![h] = "bif_raised_removed"]
              ELSE /\ UNCHANGED bif
                   /\ outcome' = [outcome EXCEPT ![h] = "bif_raised_nofile"]
           /\ tmp' = rmtree(h)
           /\ Continue(i)
    /\ UNCHANGED <<future, indexes, metrics, runVars, inputVars, localVars,
                   returncode, extractions, encodings>>

(* ------------------------------------------------------------------ *)
(* run: the library orchestrator and its ProcessPoolExecutor           *)
(* ------------------------------------------------------------------ *)
Supported(t) == t = "episode" \/ t = "movie"

\* a pool with a worker for every item, whatever the budgets
max_workers_per_item == Cardinality(Items)

\* max_workers=settings.CPU_THREADS + settings.GPU_THREADS
max_workers == settings.CPU_THREADS + settings.GPU_THREADS

Running == {j \in Items : future[j] = "running"}

\* the program is started: run(gpu) is called
run_start ==
    /\ runPc = "idle"
    /\ runs' = runs + 1
    /\ runPc' = "section" /\ sec' = 1 /\ nfut' = 1
    /\ UNCHANGED <<fsVars, inputVars, histVars, future, pc, part, localVars>>

\* lines 277-291: the next section; an unsupported one is skipped, a supported
\* one gets an executor and one submitted future per item
run_section ==
    /\ runPc = "section"
    /\ IF sec > Len(Sections)
       THEN runPc' = "returned" /\ UNCHANGED <<sec, nfut, future>>
       ELSE IF ~Supported(Sections[sec].type)
       THEN sec' = sec + 1 /\ UNCHANGED <<runPc, nfut, future>>
       ELSE IF max_workers <= 0
       \* ProcessPoolExecutor raises ValueError: max_workers must be greater than 0
       THEN runPc' = "crashed" /\ UNCHANGED <<sec, nfut, future>>
       ELSE /\ future' = [j \in Items |->
                            IF j \in {Sections[sec].media[x] : x \in 1..Len(Sections[sec].media)}
                            THEN "pending" ELSE future[j]]
            /\ nfut' = 1
            /\ runPc' = "collect"
            /\ UNCHANGED sec
    /\ UNCHANGED <<fsVars, inputVars, histVars, runs, pc, part, localVars>>

\* position of item j in the section's submission order
Position(j) == CHOOSE x \in 1..Len(Sections[sec].media) : Sections[sec].media[x] = j

\* a free worker of the pool takes the oldest pending call
worker_start(i) ==
    /\ runPc = "collect" /\ future[i] = "pending"
    /\ Cardinality(Running) < max_workers
    /\ \A j \in Items : future[j] = "pending" => Position(i) <= Position(j)
    /\ future' = [future EXCEPT ![i] = "running"]
    /\ pc' = [pc EXCEPT ![i] = "query"]
    /\ UNCHANGED <<fsVars, runVars, inputVars, histVars, part, localVars>>

\* future.result() that returns at once, whatever the state of the call
result_no_wait(j) == TRUE

\* line 294: future.result() returns or raises once the call has finished
result(j) == future[j] \in {"returned", "raised"}

\* lines 292-296: future.result() of the next future, in submission order; an
\* exception is logged; after the last one the with block ends
run_collect ==
    /\ runPc = "collect"
    /\ IF nfut > Len(Sections[sec].media)
       THEN sec' = sec + 1 /\ runPc' = "section" /\ UNCHANGED nfut
       ELSE /\ result(Sections[sec].media[nfut])
            /\ nfut' = nfut + 1
            /\ UNCHANGED <<sec, runPc>>
    /\ UNCHANGED <<fsVars, inputVars, histVars, runs, future, pc, part, localVars>>

(* ------------------------------------------------------------------ *)
(* Specifications                                                      *)
(* ------------------------------------------------------------------ *)
\* frame intervals the settings are drawn from
Intervals == {1, 5}

\* worker budgets the settings are drawn from
Budgets == {0, 1, 2}

InitState ==
    /\ indexes = {}
    /\ tmp = [h \in Hashes |-> NoDir]
    /\ bif = [h \in Hashes |-> NoFile]
    /\ metrics = [f \in Files |-> <<>>]
    /\ runPc = "idle" /\ sec = 1 /\ nfut = 1 /\ runs = 0
    /\ future = [j \in Items |-> "none"]
    /\ pc = [j \in Items |-> "none"]
    /\ part = [j \in Items |-> 1]
    /\ hw_accel_used = [j \in Items |-> FALSE]
    /\ ffmpeg_count = [j \in Items |-> -1]
    /\ returncode = [h \in Hashes |-> -1]
    /\ outcome = [h \in Hashes |-> "none"]
    /\ extractions = [h \in Hashes |-> 0]
    /\ encodings = [h \in Hashes |-> 0]

\* the videos of the library
LibraryVideos == [f \in Files |-> <<1>>]

\* one start of the program on the library, under each configuration
Init ==
    /\ InitState
    /\ video = LibraryVideos
    /\ \E g \in {"None", "NVIDIA"}, c \in {0, 1}, t \in {0, 1} :
          /\ gpu = g
          /\ settings = [PLEX_BIF_FRAME_INTERVAL |-> 5, GPU_THREADS |-> t,
                         CPU_THREADS |-> c]

Job(i) ==
    \/ query(i)
    \/ locate_target(i)
    \/ generate_images_args(i)
    \/ Popen(i)
    \/ communicate(i)
    \/ rename_and_insert_metric(i)
    \/ generate_bif(i)
    \/ except_generate_bif(i)
    \/ process_item_return(i)

Next ==
    \/ run_start
    \/ run_section
    \/ run_collect
    \/ \E i \in Items : worker_start(i)
    \/ \E i \in Items : Job(i)

Spec == Init /\ [][Next]_vars

\* a later start of the program reaches the same item again: process_item is
\* called anew on the file system the earlier calls left
process_item_again(i) ==
    /\ future[i] \in {"returned", "raised"} /\ runs < MaxRuns
    /\ runs' = runs + 1
    /\ future' = [future EXCEPT ![i] = "running"]
    /\ pc' = [pc EXCEPT ![i] = "query"]
    /\ part' = [part EXCEPT ![i] = 1]
    /\ UNCHANGED localVars
    /\ returncode' = [h \in Hashes |-> -1]
    /\ outcome' = [h \in Hashes |-> "none"]
    /\ UNCHANGED <<fsVars, inputVars, runPc, sec, nfut, extractions, encodings>>

\* one Item Job alone (item 1 on a worker), over all videos and settings
InitItem ==
    /\ indexes = {}
    /\ tmp = [h \in Hashes |-> NoDir]
    /\ bif = [h \in Hashes |-> NoFile]
    /\ metrics = [f \in Files |-> <<>>]
    /\ runPc = "collect" /\ sec = 1 /\ nfut = 1 /\ runs = 1
    /\ future = [j \in Items |-> IF j = 1 THEN "running" ELSE "none"]
    /\ pc = [j \in Items |-> IF j = 1 THEN "query" ELSE "none"]
    /\ part = [j \in Items |-> 1]
    /\ hw_accel_used = [j \in Items |-> FALSE]
    /\ ffmpeg_count = [j \in Items |-> -1]
    /\ returncode = [h \in Hashes |-> -1]
    /\ outcome = [h \in Hashes |-> "none"]
    /\ extractions = [h \in Hashes |-> 0]
    /\ encodings = [h \in Hashes |-> 0]
    /\ \/ \* every video and frame interval, on the default budgets without accelerator
          /\ \E v \in Videos : video = [f \in Files |-> v]
          /\ gpu = "None"
          /\ settings \in [PLEX_BIF_FRAME_INTERVAL : Intervals, GPU_THREADS : {4},
                           CPU_THREADS : {4}]
       \/ \* every accelerator state and budget, on one video
          /\ video = LibraryVideos
          /\ gpu \in AcceleratorStates
          /\ settings \in [PLEX_BIF_FRAME_INTERVAL : {5}, GPU_THREADS : Budgets,
                           CPU_THREADS : Budgets]

NextItem ==
    \/ process_item_again(1)
    \/ Job(1)

SpecItem == InitItem /\ [][NextItem]_vars

\* the steps of process_item that depend on nothing but the worker running:
\* every one but proc.communicate(), which returns when the transcoder exits
OwnSteps(i) ==
    \/ query(i)
    \/ locate_target(i)
    \/ generate_images_args(i)
    \/ Popen(i)
    \/ rename_and_insert_metric(i)
    \/ generate_bif(i)
    \/ except_generate_bif(i)
    \/ process_item_return(i)

\* one Item Job on a worker that keeps running; the transcoder is another
\* program: whether and when it exits is not in the hands of this one, and
\* lines 154-159 set no timeout and never terminate it
SpecItemLive == SpecItem /\ WF_vars(OwnSteps(1))

\* one run whose workers keep running and whose transcoders all exit
SpecLive ==
    /\ Spec
    /\ WF_vars(run_start \/ run_section \/ run_collect)
    /\ \A i \in Items : WF_vars(worker_start(i)) /\ WF_vars(Job(i))

(* ------------------------------------------------------------------ *)
(* Vocabulary of the properties                                        *)
(* ------------------------------------------------------------------ *)
\* the MediaParts that carry a hash
AllParts == UNION {{Tree(k)[x] : x \in 1..Len(Tree(k))} : k \in Items}
FileOf(h) == (CHOOSE p \in AllParts : p.hash = h).file

\* the Item Job states of the design, read off the branch the part took
Skipped(h) == outcome[h] \in {"not_found", "exists"}
Failed(h) == outcome[h] \in {"probe_raised", "rename_raised", "insert_metric_raised",
                             "bif_raised_removed", "bif_raised_nofile", "raised"}
EncodingFailed(h) == outcome[h] \in {"bif_raised_removed", "bif_raised_nofile"}
Finished(h) == outcome[h] \notin {"none", "generating"}
\* extraction, indexing and encoding all succeeded and the artifact is written
Done(h) == outcome[h] = "written" /\ returncode[h] = 0

\* the documented layout: a 64-byte header, then the index table, then the frames
U32(b, off) ==
    IF b[off + 4] >= 128 THEN -1
    ELSE b[off + 1] + 256 * b[off + 2] + 65536 * b[off + 3] + 16777216 * b[off + 4]

FrameCount(b) == U32(b, 12)
IntervalMs(b) == U32(b, 16)
EntryTimestamp(b, k) == U32(b, 64 + 8 * k)
EntryOffset(b, k) == U32(b, 64 + 8 * k + 4)

\* b reads as an artifact of the documented layout
WellFormed(b) ==
    /\ Len(b) >= 72
    /\ SubSeq(b, 1, 8) = <<137, 66, 73, 70, 13, 10, 26, 10>>
    /\ U32(b, 8) = 0
    /\ FrameCount(b) >= 0
    /\ Len(b) >= 64 + 8 * (FrameCount(b) + 1)
    /\ \A k \in 0..(FrameCount(b) - 1) : EntryTimestamp(b, k) = k
    /\ SubSeq(b, 64 + 8 * FrameCount(b) + 1, 64 + 8 * FrameCount(b) + 4)
          = <<255, 255, 255, 255>>
    /\ EntryOffset(b, 0) = 64 + 8 * (FrameCount(b) + 1)
    /\ \A k \in 0..(FrameCount(b) - 1) : EntryOffset(b, k) <= EntryOffset(b, k + 1)
    /\ EntryOffset(b, FrameCount(b)) = Len(b)

\* the frames a reader of the documented layout gets: timestamp in seconds, bytes
DecodedFrames(b) ==
    [k \in 1..FrameCount(b) |->
        [timestamp |-> (EntryTimestamp(b, k - 1) * IntervalMs(b)) \div 1000,
         data |-> SubSeq(b, EntryOffset(b, k - 1) + 1, EntryOffset(b, k))]]

\* the frames of media file f as the transcoder extracts them at the interval
SourceFrames(f) ==
    [k \in 1..Len(video[f]) |->
        [timestamp |-> (k - 1) * settings.PLEX_BIF_FRAME_INTERVAL,
         data |-> FrameBytes(k, video[f][k])]]

RoundTrips(h) ==
    /\ bif[h].exists
    /\ WellFormed(bif[h].bytes)
    /\ DecodedFrames(bif[h].bytes) = SourceFrames(FileOf(h))

(* ------------------------------------------------------------------ *)
(* C1                                                                  *)
(* ------------------------------------------------------------------ *)
\* C1: when the transcoder exits with a non-zero code the job fails without
\* entering Encoding (generate_bif is not called), the temporary directory is
\* removed and no artifact exists at the target path once the part is finished.
C1_NonZeroExitFails ==
    \A h \in Hashes :
        returncode[h] = 1 =>
            /\ encodings[h] = 0
            /\ bif[h] = NoFile
            /\ Finished(h) => (Failed(h) /\ tmp[h] = NoDir)

(* ------------------------------------------------------------------ *)
(* C2                                                                  *)
(* ------------------------------------------------------------------ *)
\* C2: a job that finds the artifact of its part in place skips the part: no
\* transcoder, no encoder, no temporary directory, no metric, artifact unchanged;
\* so once an artifact is in place no later call extracts or encodes again.
C2_ExistingArtifactSkipped ==
    /\ [](\A h \in Hashes :
            outcome[h] = "exists" =>
                returncode[h] = -1 /\ tmp[h] = NoDir /\ bif[h] # NoFile)
    /\ [][\A h \in Hashes :
            (bif[h] # NoFile /\ outcome[h] # "generating") =>
                /\ bif'[h] = bif[h]
                /\ tmp'[h] = NoDir
                /\ extractions'[h] = extractions[h]
                /\ encodings'[h] = encodings[h]
                /\ metrics'[FileOf(h)] = metrics[FileOf(h)]
                /\ outcome'[h] \in {outcome[h], "none", "exists"}]_vars

\* a second call found the artifact the first call wrote and skipped: one
\* extraction and one encoding in total
C2_Witness ==
    /\ runs >= 2 /\ outcome[1] = "exists" /\ future[1] = "returned"
    /\ extractions[1] = 1 /\ encodings[1] = 1 /\ Len(metrics[1]) = 1

(* ------------------------------------------------------------------ *)
(* C3                                                                  *)
(* ------------------------------------------------------------------ *)
\* C3: the temporary working directory exists only while its part is being
\* generated: on every exit path it is gone once the part is finished, and so
\* once the job has returned or raised.
C3_TmpRemovedOnEveryExit ==
    /\ \A h \in Hashes : outcome[h] # "generating" => tmp[h] = NoDir
    /\ \A i \in Items :
          future[i] \in {"returned", "raised"} =>
              \A x \in 1..Len(Tree(i)) : Tree(i)[x].hash # 0 => tmp[Tree(i)[x].hash] = NoDir

\* one run in which a part was encoded after a non-zero exit, a part failed in
\* encoding and a part failed in the metric sink: all three directories are gone
C3_Witness ==
    /\ runPc = "returned"
    /\ outcome[1] = "written" /\ returncode[1] = 1
    /\ outcome[2] = "bif_raised_removed" /\ returncode[2] = 0
    /\ outcome[5] = "insert_metric_raised"
    /\ extractions[1] = 1 /\ extractions[2] = 1 /\ extractions[5] = 1
    /\ \A h \in Hashes : tmp[h] = NoDir

(* ------------------------------------------------------------------ *)
(* C4                                                                  *)
(* ------------------------------------------------------------------ *)
\* C4: run() returns only with every submitted future collected, whatever the
\* jobs raised; and on a 2-worker pool, when item 1 failed in encoding and item 2
\* succeeded, item 1 has no artifact and item 2's artifact exists and is valid
\* (it reads back, by the documented layout, as the frames of its video).
C4_FailureIsolation ==
    runPc = "returned" =>
        /\ \A x \in 1..Len(Sections) :
              Supported(Sections[x].type) =>
                  \A y \in 1..Len(Sections[x].media) :
                      future[Sections[x].media[y]] \in {"returned", "raised"}
        /\ (max_workers = 2 /\ EncodingFailed(1) /\ Done(2)) =>
              (bif[1] = NoFile /\ RoundTrips(2))

(* ------------------------------------------------------------------ *)
(* C5                                                                  *)
(* ------------------------------------------------------------------ *)
\* C5: after a part failed in generate_bif, wherever the writing stopped, no file
\* is left at the artifact path, and a part without an artifact file is never
\* skipped as already generated.
C5_PartialArtifactRemoved ==
    /\ [](\A h \in Hashes : EncodingFailed(h) => bif[h] = NoFile)
    /\ [][\A h \in Hashes : bif[h] = NoFile => outcome'[h] # "exists"]_vars

\* generate_bif raised with a file already on disk, and the handler removed it
C5_Witness ==
    /\ outcome[1] = "bif_raised_removed" /\ bif[1] = NoFile
    /\ encodings[1] = 1 /\ returncode[1] = 0 /\ Len(video[1]) = 2

(* ------------------------------------------------------------------ *)
(* C6                                                                  *)
(* ------------------------------------------------------------------ *)
\* the offset field of the k-th index entry generate_bif writes (k = N+1: sentinel)
WrittenOffset(dir, k) == U32(TableWrites(dir, ListImages(dir))[2 * k], 0)

\* C6: for the N >= 0 frame files of a successful extraction that generate_bif
\* is about to encode, the offsets of the index table are strictly increasing,
\* start at 64 + (8 + 8N), advance by the size of each frame, and the sentinel's
\* offset is the end-of-file position of the artifact written.
C6_IndexOffsets ==
    \A i \in Items :
        (future[i] = "running" /\ pc[i] = "generate_bif"
            /\ returncode[MediaPart(i).hash] = 0) =>
            LET dir == tmp[MediaPart(i).hash].files
                images == ListImages(dir)
                N == Len(images)
            IN  /\ \A k \in 1..N : WrittenOffset(dir, k) < WrittenOffset(dir, k + 1)
                /\ WrittenOffset(dir, 1) = 64 + (8 + 8 * N)
                /\ \A k \in 1..N : WrittenOffset(dir, k + 1)
                                      = WrittenOffset(dir, k) + Len(dir[images[k]])
                /\ WrittenOffset(dir, N + 1)
                      = Len(BifBytes(dir, settings.PLEX_BIF_FRAME_INTERVAL))

(* ------------------------------------------------------------------ *)
(* C7                                                                  *)
(* ------------------------------------------------------------------ *)
\* C7: the artifact of a part whose extraction and encoding succeeded decodes, by
\* the documented layout, to exactly the frames of the video, in order, each with
\* its timestamp (k-1) * interval and its bytes, the sentinel closing the payload.
C7_RoundTrip == \A h \in Hashes : Done(h) => RoundTrips(h)

(* ------------------------------------------------------------------ *)
(* C8                                                                  *)
(* ------------------------------------------------------------------ *)
\* generate_images has chosen the decode path of item i and not yet returned
Admitted(i) == future[i] = "running" /\ pc[i] \in {"Popen", "communicate"}

\* the truth table for contention estimate c and the choice hw
AdmissionTable(c, hw) ==
    /\ c < settings.GPU_THREADS => hw
    /\ (c >= settings.GPU_THREADS /\ settings.CPU_THREADS > 0) => ~hw
    /\ settings.CPU_THREADS = 0 => hw

\* C8 as stated: the truth table decides the path for every accelerator state
\* (without accelerator nothing is counted, so every estimate is to be admitted).
C8_AdmissionEveryState ==
    \A i \in Items :
        Admitted(i) =>
            \A c \in (IF gpu = "None" THEN 0..MaxExternal ELSE {ffmpeg_count[i]}) :
                AdmissionTable(c, hw_accel_used[i])

\* C8 amended: with an accelerator (NVIDIA or an AMD device) the truth table
\* decides the path; without accelerator the software path is always selected.
C8_AdmissionWithAccelerator ==
    \A i \in Items :
        Admitted(i) =>
            IF gpu = "None" THEN ~hw_accel_used[i]
            ELSE /\ ffmpeg_count[i] >= 0
                 /\ AdmissionTable(ffmpeg_count[i], hw_accel_used[i])

\* the CPU budget is zero and the hardware path is taken although the
\* accelerator already runs as many transcoders as its budget allows
C8_Witness ==
    /\ Admitted(1) /\ gpu = "NVIDIA" /\ settings.CPU_THREADS = 0
    /\ settings.GPU_THREADS = 1 /\ ffmpeg_count[1] = 1 /\ hw_accel_used[1]

(* ------------------------------------------------------------------ *)
(* C9                                                                  *)
(* ------------------------------------------------------------------ *)
\* the ten characters before ".jpg"
Stem(name) == SubSeq(name, 1, Len(name) - 4)

\* name is the ten-digit decimal of second, followed by ".jpg"
IsTimestampName(name, second) ==
    /\ Len(name) = 14 /\ EndsWith(name, JpgSuffix)
    /\ IsInt(Stem(name)) /\ ParseInt(Stem(name)) = second

\* C9: after a successful extraction the directory holds exactly one file per
\* extracted frame, frame k under the fixed-width name of (k-1) * interval, and
\* the encoder's sorted listing is in ascending timestamp order.
C9_TimestampNames ==
    \A i \in Items :
        (future[i] = "running" /\ pc[i] = "generate_bif"
            /\ returncode[MediaPart(i).hash] = 0) =>
            LET dir == tmp[MediaPart(i).hash].files
                v == video[MediaPart(i).file]
                images == ListImages(dir)
            IN  /\ Cardinality(DOMAIN dir) = Len(v)
                /\ Len(images) = Len(v)
                /\ \A k \in 1..Len(v) :
                      /\ IsTimestampName(images[k],
                                         (k - 1) * settings.PLEX_BIF_FRAME_INTERVAL)
                      /\ dir[images[k]] = FrameBytes(k, v[k])

\* three frames at interval 5 are renamed to 0, 5 and 10 seconds
C9_Witness ==
    /\ future[1] = "running" /\ pc[1] = "generate_bif" /\ returncode[1] = 0
    /\ settings.PLEX_BIF_FRAME_INTERVAL = 5 /\ Len(video[1]) = 3
    /\ Cardinality(DOMAIN tmp[1].files) = 3

(* ------------------------------------------------------------------ *)
(* C10                                                                 *)
(* ------------------------------------------------------------------ *)
\* C10: in one run a part has exactly one metric row if its job is Done and none
\* if its job was Skipped or Failed.
C10_MetricIffDone ==
    \A h \in Hashes :
        /\ Done(h) => Len(metrics[FileOf(h)]) = 1
        /\ (Skipped(h) \/ Failed(h)) => Len(metrics[FileOf(h)]) = 0

(* ------------------------------------------------------------------ *)
(* C11                                                                 *)
(* ------------------------------------------------------------------ *)
\* C11: a failure of the metrics sink never fails the job: a part whose
\* extraction succeeded and whose insert_metric raised is not Failed, it was
\* handed to the encoder, and its finished job left the artifact in place.
C11_SinkFailureTolerated ==
    \A i \in Items :
        \A x \in 1..Len(Tree(i)) :
            LET h == Tree(i)[x].hash
            IN  (h # 0 /\ returncode[h] = 0 /\ Len(metrics[Tree(i)[x].file]) = 0
                    /\ Finished(h) /\ outcome[h] # "rename_raised")
                    => (~Failed(h) /\ encodings[h] = 1 /\ bif[h].exists)

(* ------------------------------------------------------------------ *)
(* C12                                                                 *)
(* ------------------------------------------------------------------ *)
\* C12: a MediaPart whose source file is not on disk is skipped: the step that
\* meets it goes on to the next part without raising and changes nothing on
\* disk, and in the whole run the part has no Indexes directory, no temporary
\* directory, no artifact, no transcoder, no encoder call and no metric row.
C12_MissingSourceSkipped ==
    /\ [](\A p \in AllParts :
            (p.hash # 0 /\ p.file \notin MediaFiles) =>
                /\ outcome[p.hash] \in {"none", "not_found"}
                /\ p.hash \notin indexes
                /\ tmp[p.hash] = NoDir
                /\ bif[p.hash] = NoFile
                /\ returncode[p.hash] = -1
                /\ extractions[p.hash] = 0 /\ encodings[p.hash] = 0
                /\ metrics[p.file] = <<>>)
    /\ [][\A i \in Items :
            (future[i] = "running" /\ pc[i] = "MediaPart" /\ part[i] <= Len(Tree(i))
                /\ MediaPart(i).hash # 0 /\ MediaPart(i).file \notin MediaFiles
                /\ <<pc[i], part[i], future[i]>>' # <<pc[i], part[i], future[i]>>) =>
                /\ outcome'[MediaPart(i).hash] = "not_found"
                /\ future'[i] = "running" /\ pc'[i] = "MediaPart"
                /\ part'[i] = part[i] + 1
                /\ UNCHANGED <<indexes, tmp, bif, metrics, extractions, encodings>>]_vars

\* item 4 met its missing file 4, skipped it, and went on to generate its next
\* part; the run returned
C12_Witness ==
    /\ runPc = "returned" /\ future[4] = "returned"
    /\ outcome[4] = "not_found" /\ outcome[5] = "written"
    /\ 4 \notin indexes /\ extractions[4] = 0

(* ------------------------------------------------------------------ *)
(* C13                                                                 *)
(* ------------------------------------------------------------------ *)
\* C13: every dispatched Item Job eventually reaches a terminal state (its call
\* returns or raises), also when the transcoder never exits on its own: the
\* wait for the transcoder ends by a timeout.
C13_JobTerminatesWithoutExit ==
    \A i \in Items :
        (future[i] = "running") ~> (future[i] \in {"returned", "raised"})

(* ------------------------------------------------------------------ *)
(* C14                                                                 *)
(* ------------------------------------------------------------------ *)
\* the items of section x
SectionItems(x) == {Sections[x].media[y] : y \in 1..Len(Sections[x].media)}

\* C14: run() blocks until all submitted jobs are complete: outside the
\* collecting loop no job is pending or running, a section is left (and the next
\* one dispatched) only with every job of it finished, each future is collected
\* only once its job has finished, and, the jobs terminating, run() started on a
\* pool of at least one worker returns with every submitted job collected.
C14_RunBlocksUntilComplete ==
    /\ [](runPc # "collect" => \A j \in Items : future[j] \notin {"pending", "running"})
    /\ [][(sec' # sec \/ runPc' = "returned") =>
            \A j \in Items : future[j] \notin {"pending", "running"}]_vars
    /\ [][nfut' = nfut + 1 => future[Sections[sec].media[nfut]] \in {"returned", "raised"}]_vars
    /\ (runPc = "collect") ~>
            (/\ runPc = "returned"
             /\ \A x \in 1..Len(Sections) :
                   Supported(Sections[x].type) =>
                       \A j \in SectionItems(x) : future[j] \in {"returned", "raised"})

\* while run() waits for the future of item 1, which is still running, item 2
\* submitted after it has already finished
C14_Witness ==
    /\ runPc = "collect" /\ sec = 1 /\ nfut = 1
    /\ future[1] = "running" /\ future[2] \in {"returned", "raised"}

(* ------------------------------------------------------------------ *)
(* C15                                                                 *)
(* ------------------------------------------------------------------ *)
\* the stage of the design the job of item i is in
Stage(i) ==
    IF future[i] # "running" THEN "None"
    ELSE IF pc[i] \in {"generate_images", "Popen", "communicate"} THEN "Extracting"
    ELSE IF pc[i] = "rename" THEN "Indexing"
    ELSE IF pc[i] \in {"generate_bif", "except"} THEN "Encoding"
    ELSE "LocatingTarget"

\* directory dir holds every frame of video v under its timestamp name
AllRenamed(dir, v) ==
    /\ Cardinality(DOMAIN dir) = Len(v)
    /\ \A k \in 1..Len(v) :
          \E name \in DOMAIN dir :
              IsTimestampName(name, (k - 1) * settings.PLEX_BIF_FRAME_INTERVAL)

FailedOutcomes == {"probe_raised", "rename_raised", "insert_metric_raised",
                   "bif_raised_removed", "bif_raised_nofile", "raised"}

\* C15: the stages of one job follow each other in the order Extracting,
\* Indexing, Encoding; Encoding is entered only from Indexing, after the
\* transcoder exited with code 0 and with every frame renamed; a part becomes
\* Failed only from Extracting or from Encoding.
C15_StageOrder ==
    [][\A i \in Items :
          /\ (Stage(i)' = "Extracting" /\ Stage(i) # "Extracting") =>
                Stage(i) = "LocatingTarget"
          /\ (Stage(i)' = "Indexing" /\ Stage(i) # "Indexing") =>
                Stage(i) = "Extracting"
          /\ (Stage(i)' = "Encoding" /\ Stage(i) # "Encoding") =>
                /\ Stage(i) = "Indexing"
                /\ returncode'[MediaPart(i).hash] = 0
                /\ AllRenamed(tmp'[MediaPart(i).hash].files, video[MediaPart(i).file])
          /\ (Stage(i) \in {"Extracting", "Indexing", "Encoding"}
                /\ outcome'[MediaPart(i).hash] \in FailedOutcomes
                /\ outcome[MediaPart(i).hash] \notin FailedOutcomes) =>
                Stage(i) \in {"Extracting", "Encoding"}]_vars

(* ------------------------------------------------------------------ *)
(* C16                                                                 *)
(* ------------------------------------------------------------------ *)
\* the workers whose transcoder is running on the accelerator
HwTranscoders == {j \in Items : future[j] = "running" /\ pc[j] = "communicate"
                                    /\ hw_accel_used[j]}

\* C16: the admission is check-then-act: the estimate a worker reads counts the
\* transcoders already started on the accelerator (this program's and others')
\* and not the workers that chose the accelerator without having started theirs
\* yet, the choice is made on that estimate alone, and nothing is reserved
\* between the choice and the start; so a worker runs on the accelerator with
\* cpu budget > 0 only on an estimate it read below the GPU budget, while the
\* number of hardware transcoders running is not bounded by that budget.
C16_CheckThenAct ==
    /\ [](\A i \in Items :
            (hw_accel_used[i] /\ settings.CPU_THREADS > 0) =>
                (ffmpeg_count[i] >= 0 /\ ffmpeg_count[i] < settings.GPU_THREADS))
    /\ [][\A i \in Items :
            (gpu # "None" /\ pc[i] = "generate_images" /\ pc'[i] = "Popen") =>
                /\ ffmpeg_count'[i] - Cardinality(HwTranscoders) \in 0..MaxExternal
                /\ hw_accel_used'[i] = (ffmpeg_count'[i] < settings.GPU_THREADS
                                            \/ settings.CPU_THREADS = 0)
                /\ \A j \in Items \ {i} :
                      hw_accel_used'[j] = hw_accel_used[j]
                          /\ ffmpeg_count'[j] = ffmpeg_count[j]]_vars

\* GPU budget 1, CPU budget 1, two workers: both read an estimate of 0 before
\* either had started its transcoder, both chose the accelerator, and two
\* hardware transcoders run at the same time
C16_Witness ==
    /\ gpu = "NVIDIA" /\ settings.CPU_THREADS = 1 /\ settings.GPU_THREADS = 1
    /\ ffmpeg_count[1] = 0 /\ ffmpeg_count[2] = 0
    /\ HwTranscoders = {1, 2}
    /\ Cardinality(HwTranscoders) > settings.GPU_THREADS

(* ------------------------------------------------------------------ *)
(* C17                                                                 *)
(* ------------------------------------------------------------------ *)
\* the items of the supported sections, and of the others
SupportedItems ==
    UNION {SectionItems(x) : x \in {y \in 1..Len(Sections) : Supported(Sections[y].type)}}
UnsupportedItems == Items \ SupportedItems

\* the jobs whose transcoder process is running
Transcoders == {j \in Items : future[j] = "running" /\ pc[j] = "communicate"}

\* no job for an item of an unsupported section; a job is submitted once, with
\* all items of its supported section; never more jobs executing, or
\* transcoders running, than the two budgets together
PoolBounded ==
    /\ [](/\ \A j \in UnsupportedItems : future[j] = "none"
          /\ Cardinality(Running) <= settings.CPU_THREADS + settings.GPU_THREADS
          /\ Cardinality(Transcoders) <= settings.CPU_THREADS + settings.GPU_THREADS)
    /\ [][\A j \in Items :
            (future'[j] = "pending" /\ future[j] # "pending") =>
                /\ future[j] = "none"
                /\ Supported(Sections[sec].type) /\ j \in SectionItems(sec)
                /\ \A k \in SectionItems(sec) : future'[k] = "pending"]_vars

\* C17 as stated, for every budget: the pool is bounded, and when run() has
\* ended every item of every supported section has been submitted.
C17_BoundedPoolEveryBudget ==
    /\ PoolBounded
    /\ [](runPc \in {"returned", "crashed"} =>
            \A j \in SupportedItems : future[j] \in {"returned", "raised"})

\* C17: the pool is bounded; with budgets that sum to at least 1, run() ends by
\* returning, with every item of every supported section submitted once; with
\* budgets that sum to 0 the pool cannot be created and run() ends by raising
\* without having submitted a job.
C17_BoundedPool ==
    /\ PoolBounded
    /\ [](runPc = "returned" =>
            /\ settings.CPU_THREADS + settings.GPU_THREADS >= 1
            /\ \A j \in SupportedItems : future[j] \in {"returned", "raised"})
    /\ [](runPc = "crashed" =>
            /\ settings.CPU_THREADS + settings.GPU_THREADS = 0
            /\ \A j \in Items : future[j] = "none")

\* on budgets 1 + 0 the transcoder of item 1 runs while item 2, submitted with
\* it, waits for the worker
C17_Witness ==
    /\ settings.CPU_THREADS + settings.GPU_THREADS = 1
    /\ Transcoders = {1} /\ future[2] = "pending" /\ future[3] = "none"

(* ------------------------------------------------------------------ *)
(* C18                                                                 *)
(* ------------------------------------------------------------------ *)
\* the job of item i is between the creation of a temporary directory and its
\* removal
Working(i) ==
    /\ future[i] = "running"
    /\ pc[i] \in {"generate_images", "Popen", "communicate", "rename",
                  "generate_bif", "except"}

\* the temporary directory the job of item i works in
JobTmp(i) == tmp_path(MediaPart(i).hash)

\* C18: two jobs that execute at the same time never work in the same temporary
\* directory, and every step that creates, fills, renames in, or removes a
\* temporary directory is a step of the one job that works in it, on the
\* directory of its own part.
C18_TmpPerJob ==
    /\ [](\A i, j \in Items :
            (i # j /\ Working(i) /\ Working(j)) => JobTmp(i) # JobTmp(j))
    /\ [][\A d \in Hashes :
            tmp'[d] # tmp[d] =>
                \E i \in Items :
                    /\ future[i] = "running" /\ part[i] <= Len(Tree(i))
                    /\ <<pc[i], part[i]>>' # <<pc[i], part[i]>>
                    /\ d = MediaPart(i).hash
                    /\ \A j \in Items \ {i} : Working(j) => JobTmp(j) # d]_vars

\* the job of item 1 has written its artifact and removed its directory while
\* the job of item 2, running beside it, still holds its renamed frames
C18_Witness ==
    /\ outcome[1] = "written" /\ tmp[1] = NoDir
    /\ future[2] = "running" /\ pc[2] = "generate_bif" /\ returncode[2] = 0
    /\ tmp[2].exists /\ DOMAIN tmp[2].files # {}

(* ------------------------------------------------------------------ *)
(* C19                                                                 *)
(* ------------------------------------------------------------------ *)
\* a job is working on the item that holds the part of hash h
JobAt(h) ==
    \E i \in Items :
        /\ future[i] \in {"pending", "running"}
        /\ \E x \in 1..Len(Tree(i)) : Tree(i)[x].hash = h

\* what the encoder writes for a part whose transcoder exited with code 0 and
\* whose frames were all renamed
CompleteArtifact(h) ==
    BifBytes(RenameImages(FfmpegOutput(video[FileOf(h)]),
                          settings.PLEX_BIF_FRAME_INTERVAL),
             settings.PLEX_BIF_FRAME_INTERVAL)

\* C19: while no job works on an item, a file at the artifact path of one of its
\* parts is the complete output of an encoding that followed a successful
\* extraction (exit code 0, all frames renamed): a part written in this run had
\* exit code 0, and a part is skipped as existing only over such a file.
C19_ArtifactOnlyFromSuccess ==
    \A h \in Hashes :
        (~JobAt(h) /\ bif[h].exists) =>
            /\ bif[h].bytes = CompleteArtifact(h)
            /\ outcome[h] = "written" => returncode[h] = 0

(* ------------------------------------------------------------------ *)
(* C20                                                                 *)
(* ------------------------------------------------------------------ *)
RECURSIVE TotalSize(_)
\* the bytes of frames of the given sizes, added up
TotalSize(sizes) == IF sizes = <<>> THEN 0 ELSE Head(sizes) + TotalSize(Tail(sizes))

\* C20: the artifact written for N frames is a header of exactly 64 bytes (magic,
\* version 0, N, 1000 * interval, zero bytes up to byte 64), then an index table
\* of exactly 8 + 8N bytes whose entry i has timestamp i and whose last entry
\* has timestamp 0xFFFFFFFF, then the frames and nothing else.
C20_HeaderAndTableSizes ==
    \A h \in Hashes :
        (outcome[h] = "written" /\ returncode[h] = 0) =>
            LET b == bif[h].bytes
                v == video[FileOf(h)]
                N == Len(v)
            IN  /\ bif[h].exists
                /\ Len(b) = 64 + (8 + 8 * N) + TotalSize(v)
                /\ SubSeq(b, 1, 8) = <<137, 66, 73, 70, 13, 10, 26, 10>>
                /\ U32(b, 8) = 0
                /\ FrameCount(b) = N
                /\ IntervalMs(b) = 1000 * settings.PLEX_BIF_FRAME_INTERVAL
                /\ \A k \in 21..64 : b[k] = 0
                /\ \A k \in 0..(N - 1) : EntryTimestamp(b, k) = k
                /\ SubSeq(b, 64 + 8 * N + 1, 64 + 8 * N + 4) = <<255, 255, 255, 255>>

====
